---- MODULE Spec2Model ----
(***************************************************************************)
(* Model of the hiMCM sustainability scoring pipeline (src/himcm/core.py). *)
(*                                                                         *)
(* Numbers.  The code computes in floating point; the model computes in    *)
(* exact rational arithmetic.  A number is a record [nan, n, d]: NaN when  *)
(* nan is TRUE, otherwise the fraction n/d in lowest terms with d > 0.     *)
(* Strings are sequences of one-character strings, so that str.lower(),    *)
(* `in` (substring) and startswith are computed, not assumed.              *)
(***************************************************************************)
EXTENDS Integers, Sequences, FiniteSets, TLC

VARIABLES
    pc,                    \* "ready" before the call, "done" after it returned, "raised" after it raised
    call,                  \* the entry point a behaviour exercises
    series,                \* _minmax_normalize: the column (a sequence of numbers, NaN = missing)
    higher_is_better,      \* _minmax_normalize: the direction flag
    norm,                  \* _minmax_normalize: the returned Series
    value,                 \* _map_with_rubric: the categorical value
    rubric_map,            \* _map_with_rubric: the rubric (an ordered map: sequence of [k, v])
    mapped,                \* _map_with_rubric: the returned score, or None
    df,                    \* the DataFrame handed to the call
    row,                   \* compute_env_condition_metric: the row scored (0 before the call)
    env_component_weights, \* the subweights of the environment composite, or None
    env_value,             \* compute_env_condition_metric: what the call handed back
    user_weights,          \* calculate_sustainability_scores: the caller's weight overrides
    env_overall_weight,    \* calculate_sustainability_scores: the weight of Env_Conditions
    rubric_file,           \* the rubric file at rubric_path
    extra_weights,         \* expand_model_for_multisport: the caller's extra weights
    out                    \* calculate_sustainability_scores: the returned frame's new columns

vars == <<pc, call, series, higher_is_better, norm, value, rubric_map, mapped, df, row,
          env_component_weights, env_value, user_weights, env_overall_weight,
          rubric_file, extra_weights, out>>

(***************************************************************************)
(* Bounds of the model.                                                    *)
(***************************************************************************)
MaxLen == 4        \* longest column handed to _minmax_normalize
MaxRows == 3       \* most rows of a DataFrame
MaxVal == 2        \* cell values are drawn from 0..MaxVal
MaxRubric == 3     \* most entries of a rubric map
Top == 100         \* the highest cell value of a fixture-shaped frame

(***************************************************************************)
(* Exact rational arithmetic with NaN (IEEE: NaN is absorbing).            *)
(***************************************************************************)
RECURSIVE GCD(_, _)
GCD(a, b) == IF b = 0 THEN a ELSE GCD(b, a % b)

Abs(x) == IF x < 0 THEN -x ELSE x

NaN == [nan |-> TRUE, n |-> 0, d |-> 1]

\* The fraction n/d (d # 0) in lowest terms.
R(n, d) ==
    LET s == IF d < 0 THEN -1 ELSE 1
        g == GCD(Abs(n), Abs(d))
    IN  [nan |-> FALSE, n |-> (s * n) \div g, d |-> (s * d) \div g]

I(k) == [nan |-> FALSE, n |-> k, d |-> 1]

IsNaN(x) == x.nan

RAdd(x, y) ==
    IF x.nan \/ y.nan THEN NaN
    ELSE LET g == GCD(x.d, y.d)
         IN  R(x.n * (y.d \div g) + y.n * (x.d \div g), (x.d \div g) * y.d)

RNeg(x) == IF x.nan THEN NaN ELSE [nan |-> FALSE, n |-> -x.n, d |-> x.d]

RSub(x, y) == RAdd(x, RNeg(y))

RMul(x, y) ==
    IF x.nan \/ y.nan THEN NaN
    ELSE LET g1 == GCD(Abs(x.n), y.d)
             g2 == GCD(Abs(y.n), x.d)
         IN  R((x.n \div g1) * (y.n \div g2), (x.d \div g2) * (y.d \div g1))

\* x / y for y # 0 (every division of the code is guarded or raises on 0).
RDiv(x, y) ==
    IF x.nan \/ y.nan THEN NaN
    ELSE RMul(x, R(y.d, y.n))

\* Comparisons with a NaN operand are FALSE, as in IEEE arithmetic.
RLt(x, y) == ~x.nan /\ ~y.nan /\ x.n * y.d < y.n * x.d
RLe(x, y) == ~x.nan /\ ~y.nan /\ x.n * y.d <= y.n * x.d
REq(x, y) == ~x.nan /\ ~y.nan /\ x.n = y.n /\ x.d = y.d

RECURSIVE Pow10(_)
Pow10(k) == IF k = 0 THEN 1 ELSE 10 * Pow10(k - 1)

\* np.round(x, k): round half to even at k decimals; NaN stays NaN.
Round(x, k) ==
    IF x.nan THEN NaN
    ELSE LET p  == Pow10(k)
             w  == x.n \div x.d                 \* floor of x
             r  == x.n % x.d                    \* x = w + r/d, 0 <= r < d
             f  == (r * p) \div x.d             \* floor of the scaled fraction
             r2 == (r * p) % x.d                \* what is left of it
             up == \/ 2 * r2 > x.d
                   \/ (2 * r2 = x.d /\ (w * p + f) % 2 = 1)
         IN  R(w * p + f + (IF up THEN 1 ELSE 0), p)

RECURSIVE SeqSum(_)
SeqSum(s) == IF s = <<>> THEN I(0) ELSE RAdd(Head(s), SeqSum(Tail(s)))

(***************************************************************************)
(* _minmax_normalize (core.py 14-28).                                      *)
(***************************************************************************)
\* Series.min() / Series.max(): over the non-missing cells, NaN when there is none.
RECURSIVE SeriesMin(_)
SeriesMin(s) ==
    IF s = <<>> THEN NaN
    ELSE LET m == SeriesMin(Tail(s))
         IN  IF Head(s).nan THEN m
             ELSE IF m.nan \/ RLt(Head(s), m) THEN Head(s) ELSE m

RECURSIVE SeriesMax(_)
SeriesMax(s) ==
    IF s = <<>> THEN NaN
    ELSE LET m == SeriesMax(Tail(s))
         IN  IF Head(s).nan THEN m
             ELSE IF m.nan \/ RLt(m, Head(s)) THEN Head(s) ELSE m

\* pd.Series(50, index=...)
Const50(s) == [i \in DOMAIN s |-> I(50)]

\* A slip: the direction flag is ignored.
minmax_ignores_direction(s, hib) ==
    IF \A i \in DOMAIN s : s[i].nan THEN Const50(s)
    ELSE LET mn == SeriesMin(s)
             mx == SeriesMax(s)
         IN  IF mn.nan \/ mx.nan \/ REq(mx, mn) THEN Const50(s)
             ELSE [i \in DOMAIN s |->
                     RMul(RDiv(RSub(s[i], mn), RSub(mx, mn)), I(100))]

\* A slip: the guard on mx == mn is missing, so a flat column divides 0 by 0.
minmax_unguarded(s, hib) ==
    IF \A i \in DOMAIN s : s[i].nan THEN Const50(s)
    ELSE LET mn == SeriesMin(s)
             mx == SeriesMax(s)
         IN  IF REq(mx, mn) THEN [i \in DOMAIN s |-> NaN]
             ELSE [i \in DOMAIN s |->
                     LET nrm == RMul(RDiv(RSub(s[i], mn), RSub(mx, mn)), I(100))
                     IN  IF hib THEN nrm ELSE RSub(I(100), nrm)]

_minmax_normalize(s, hib) ==
    IF \A i \in DOMAIN s : s[i].nan THEN Const50(s)
    ELSE LET mn == SeriesMin(s)
             mx == SeriesMax(s)
         IN  IF mn.nan \/ mx.nan \/ REq(mx, mn) THEN Const50(s)
             ELSE [i \in DOMAIN s |->
                     LET nrm == RMul(RDiv(RSub(s[i], mn), RSub(mx, mn)), I(100))
                     IN  IF hib THEN nrm ELSE RSub(I(100), nrm)]

(***************************************************************************)
(* Strings: sequences of one-character strings.                            *)
(***************************************************************************)
UpperCase == <<"A", "B", "C", "D", "E", "F", "G", "H", "I", "J", "K", "L", "M", "N", "O", "P", "Q", "R", "S", "T", "U", "V", "W", "X", "Y", "Z">>
LowerCase == <<"a", "b", "c", "d", "e", "f", "g", "h", "i", "j", "k", "l", "m", "n", "o", "p", "q", "r", "s", "t", "u", "v", "w", "x", "y", "z">>

LowerChar(c) ==
    IF \E i \in DOMAIN UpperCase : UpperCase[i] = c
    THEN LowerCase[CHOOSE i \in DOMAIN UpperCase : UpperCase[i] = c]
    ELSE c

\* str.lower()
Lower(s) == [i \in DOMAIN s |-> LowerChar(s[i])]

\* k in s
IsSubstring(k, s) ==
    \E i \in 0..(Len(s) - Len(k)) : SubSeq(s, i + 1, i + Len(k)) = k

\* s.startswith(p)
StartsWith(s, p) == Len(p) <= Len(s) /\ SubSeq(s, 1, Len(p)) = p

(***************************************************************************)
(* JSON values as json.load returns them.  Python's None is JSON null.     *)
(* A dict is the sequence of its items in iteration order.                 *)
(***************************************************************************)
JNum(x)  == [t |-> "num",  num |-> x,   items |-> <<>>]
JStr     == [t |-> "str",  num |-> NaN, items |-> <<>>]
JList    == [t |-> "list", num |-> NaN, items |-> <<>>]
JObj(it) == [t |-> "obj",  num |-> NaN, items |-> it]
None     == [t |-> "null", num |-> NaN, items |-> <<>>]

\* A categorical cell: a string, or missing (None / NaN).
Missing  == [null |-> TRUE,  s |-> <<>>]
Label(s) == [null |-> FALSE, s |-> s]

HasKey(items, k) == \E i \in DOMAIN items : items[i].k = k
\* dict[k] of a dict that has the key
Get(items, k) == items[CHOOSE i \in DOMAIN items : items[i].k = k].v

(***************************************************************************)
(* _map_with_rubric (core.py 107-134).                                     *)
(***************************************************************************)
K_default == <<"d", "e", "f", "a", "u", "l", "t">>

NoHit  == [hit |-> FALSE, v |-> None]
Hit(v) == [hit |-> TRUE,  v |-> v]

\* for k, v in rubric_map.items(): skip 'default'; return v at the first k == s
RECURSIVE ExactLoop(_, _)
ExactLoop(items, s) ==
    IF items = <<>> THEN NoHit
    ELSE IF Head(items).k = K_default THEN ExactLoop(Tail(items), s)
    ELSE IF Head(items).k = s THEN Hit(Head(items).v)
    ELSE ExactLoop(Tail(items), s)

\* for k, v in rubric_map.items(): skip 'default'; return v at the first k in s
RECURSIVE SubstringLoop(_, _)
SubstringLoop(items, s) ==
    IF items = <<>> THEN NoHit
    ELSE IF Head(items).k = K_default THEN SubstringLoop(Tail(items), s)
    ELSE IF IsSubstring(Head(items).k, s) THEN Hit(Head(items).v)
    ELSE SubstringLoop(Tail(items), s)

\* A slip: the substring loop runs before the exact loop.
map_substring_first(val, rmap) ==
    IF rmap = <<>> \/ val.null THEN None
    ELSE LET s  == Lower(val.s)
             ex == ExactLoop(rmap, s)
             sb == SubstringLoop(rmap, s)
         IN  IF sb.hit THEN sb.v
             ELSE IF ex.hit THEN ex.v
             ELSE IF HasKey(rmap, K_default) THEN Get(rmap, K_default)
             ELSE None

_map_with_rubric(val, rmap) ==
    IF rmap = <<>> \/ val.null THEN None
    ELSE LET s  == Lower(val.s)
             ex == ExactLoop(rmap, s)
             sb == SubstringLoop(rmap, s)
         IN  IF ex.hit THEN ex.v
             ELSE IF sb.hit THEN sb.v
             ELSE IF HasKey(rmap, K_default) THEN Get(rmap, K_default)
             ELSE None

(***************************************************************************)
(* Column names, weight keys and the literals the code compares with.      *)
(***************************************************************************)
City == <<"C", "i", "t", "y">>
State == <<"S", "t", "a", "t", "e">>
Times_Hosted == <<"T", "i", "m", "e", "s", "_", "H", "o", "s", "t", "e", "d">>
Last_Hosted_Year == <<"L", "a", "s", "t", "_", "H", "o", "s", "t", "e", "d", "_", "Y", "e", "a", "r">>
Stadium_Type == <<"S", "t", "a", "d", "i", "u", "m", "_", "T", "y", "p", "e">>
Stadium_leed_cert == <<"S", "t", "a", "d", "i", "u", "m", "_", "l", "e", "e", "d", "_", "c", "e", "r", "t">>
Waste_Management == <<"W", "a", "s", "t", "e", "_", "M", "a", "n", "a", "g", "e", "m", "e", "n", "t">>
Future_Developments == <<"F", "u", "t", "u", "r", "e", "_", "D", "e", "v", "e", "l", "o", "p", "m", "e", "n", "t", "s">>
Avg_Feb_Temp_F == <<"A", "v", "g", "_", "F", "e", "b", "_", "T", "e", "m", "p", "_", "F">>
Alltransit_Score == <<"A", "l", "l", "t", "r", "a", "n", "s", "i", "t", "_", "S", "c", "o", "r", "e">>
Renewable_Energy_Pct == <<"R", "e", "n", "e", "w", "a", "b", "l", "e", "_", "E", "n", "e", "r", "g", "y", "_", "P", "c", "t">>
Waste_Diversion_Pct == <<"W", "a", "s", "t", "e", "_", "D", "i", "v", "e", "r", "s", "i", "o", "n", "_", "P", "c", "t">>
Green_Legacy_Projects == <<"G", "r", "e", "e", "n", "_", "L", "e", "g", "a", "c", "y", "_", "P", "r", "o", "j", "e", "c", "t", "s">>
Carbon_Offset_Programs == <<"C", "a", "r", "b", "o", "n", "_", "O", "f", "f", "s", "e", "t", "_", "P", "r", "o", "g", "r", "a", "m", "s">>
Env_Conditions == <<"E", "n", "v", "_", "C", "o", "n", "d", "i", "t", "i", "o", "n", "s">>
Water_Score == <<"W", "a", "t", "e", "r", "_", "S", "c", "o", "r", "e">>
Air_ug_m3 == <<"A", "i", "r", "_", "u", "g", "_", "m", "3">>
Carbon_Emissions == <<"C", "a", "r", "b", "o", "n", "_", "E", "m", "i", "s", "s", "i", "o", "n", "s">>
S_water == <<"w", "a", "t", "e", "r">>
S_air == <<"a", "i", "r">>
S_pm2 == <<"p", "m", "2">>
S_pm10 == <<"p", "m", "1", "0">>
S_carbon == <<"c", "a", "r", "b", "o", "n">>
S_emissions == <<"e", "m", "i", "s", "s", "i", "o", "n", "s">>
S_dome == <<"d", "o", "m", "e">>
S_retractable_roof == <<"r", "e", "t", "r", "a", "c", "t", "a", "b", "l", "e", " ", "r", "o", "o", "f">>
S_retractable == <<"r", "e", "t", "r", "a", "c", "t", "a", "b", "l", "e">>
S_platinum == <<"p", "l", "a", "t", "i", "n", "u", "m">>
S_gold == <<"g", "o", "l", "d">>
S_silver == <<"s", "i", "l", "v", "e", "r">>
S_certified == <<"c", "e", "r", "t", "i", "f", "i", "e", "d">>
S_none == <<"n", "o", "n", "e">>

(***************************************************************************)
(* Dicts (sequences of items [k, v] in insertion order) and DataFrames     *)
(* ([n |-> rows, cols |-> sequence of [name, cells]], names distinct).     *)
(***************************************************************************)
Item(k, v) == [k |-> k, v |-> v]

\* d[k] = v
DictSet(d, k, v) ==
    IF HasKey(d, k)
    THEN [i \in DOMAIN d |-> IF d[i].k = k THEN Item(k, v) ELSE d[i]]
    ELSE Append(d, Item(k, v))

\* for k, v in upd.items(): d[k] = v
RECURSIVE DictUpdate(_, _)
DictUpdate(d, upd) ==
    IF upd = <<>> THEN d
    ELSE DictUpdate(DictSet(d, Head(upd).k, Head(upd).v), Tail(upd))

DictValues(d) == [i \in DOMAIN d |-> d[i].v]

\* d.get(k, 0)
GetOr0(d, k) == IF HasKey(d, k) THEN Get(d, k) ELSE I(0)

HasColumn(frame, name) == \E i \in DOMAIN frame.cols : frame.cols[i].name = name
Column(frame, name) == frame.cols[CHOOSE i \in DOMAIN frame.cols : frame.cols[i].name = name].cells
Rows(frame) == 1..frame.n

\* What a call hands back: a value, or an exception.
Ok(v)  == [raised |-> FALSE, v |-> v]
Raised == [raised |-> TRUE,  v |-> NaN]

(***************************************************************************)
(* compute_env_condition_metric (core.py 31-81).                           *)
(***************************************************************************)
default_env_weights ==
    <<Item("energy", R(4, 10)), Item("water", R(2, 10)),
      Item("air", R(2, 10)), Item("carbon", R(2, 10))>>

IsWaterCol(c)  == StartsWith(Lower(c.name), S_water)
IsAirCol(c)    == \/ IsSubstring(S_air, Lower(c.name))
                  \/ IsSubstring(S_pm2, Lower(c.name))
                  \/ IsSubstring(S_pm10, Lower(c.name))
IsCarbonCol(c) == \/ IsSubstring(S_carbon, Lower(c.name))
                  \/ IsSubstring(S_emissions, Lower(c.name))

water_cols(frame)  == SelectSeq(frame.cols, IsWaterCol)
air_cols(frame)    == SelectSeq(frame.cols, IsAirCol)
carbon_cols(frame) == SelectSeq(frame.cols, IsCarbonCol)

\* The components dict: the detected components, each the row's normalized value.
env_components(frame, r) ==
    (IF HasColumn(frame, Renewable_Energy_Pct)
     THEN <<Item("energy", _minmax_normalize(Column(frame, Renewable_Energy_Pct), TRUE)[r])>>
     ELSE <<>>)
    \o (IF water_cols(frame) # <<>>
        THEN <<Item("water", _minmax_normalize(water_cols(frame)[1].cells, TRUE)[r])>>
        ELSE <<>>)
    \o (IF air_cols(frame) # <<>>
        THEN <<Item("air", _minmax_normalize(air_cols(frame)[1].cells, FALSE)[r])>>
        ELSE <<>>)
    \o (IF carbon_cols(frame) # <<>>
        THEN <<Item("carbon", _minmax_normalize(carbon_cols(frame)[1].cells, FALSE)[r])>>
        ELSE <<>>)

\* score += components[k] * (weights[k] / total_w), for k in present
RECURSIVE env_score(_, _, _, _)
env_score(present, weights, components, total_w) ==
    IF present = <<>> THEN I(0)
    ELSE LET k == Head(present).k
         IN  RAdd(RMul(Get(components, k), RDiv(Get(weights, k), total_w)),
                  env_score(Tail(present), weights, components, total_w))

\* ecw: [none |-> TRUE] for None, else [none |-> FALSE, items |-> the dict].
compute_env_condition_metric(frame, r, ecw) ==
    LET weights    == IF ecw.none THEN default_env_weights ELSE ecw.items
        components == env_components(frame, r)
        InComponents(it) == HasKey(components, it.k)
        present    == SelectSeq(weights, InComponents)
        total_w    == SeqSum(DictValues(present))
    IN  IF present = <<>> THEN Ok(I(50))
        ELSE IF REq(total_w, I(0)) THEN Raised         \* ZeroDivisionError
        ELSE Ok(Round(env_score(present, weights, components, total_w), 2))

(***************************************************************************)
(* _load_rubric (core.py 84-104).  A rubric file: whether the path exists, *)
(* can be opened, parses as JSON, and the JSON value it holds.             *)
(***************************************************************************)
_load_rubric(file) ==
    IF ~file.exists THEN <<>>
    ELSE IF ~file.readable \/ ~file.valid THEN <<>>      \* except Exception
    ELSE IF file.data.t = "obj" THEN file.data.items ELSE <<>>

(***************************************************************************)
(* calculate_sustainability_scores (core.py 137-303).                      *)
(***************************************************************************)
default_weights ==
    <<Item(Times_Hosted, R(5, 100)), Item(Last_Hosted_Year, R(2, 100)),
      Item(Stadium_Type, R(8, 100)), Item(Stadium_leed_cert, R(5, 100)),
      Item(Waste_Management, R(3, 100)), Item(Future_Developments, R(3, 100)),
      Item(Avg_Feb_Temp_F, R(5, 100)), Item(Alltransit_Score, R(15, 100)),
      Item(Renewable_Energy_Pct, R(10, 100)), Item(Waste_Diversion_Pct, R(10, 100)),
      Item(Green_Legacy_Projects, R(10, 100)), Item(Carbon_Offset_Programs, R(5, 100)),
      Item(Env_Conditions, R(25, 100))>>

\* The override order reversed: the user's entry for Env_Conditions survives.
user_override_wins(uw, eow) ==
    DictUpdate(DictSet(default_weights, Env_Conditions, eow), uw)

\* The weights divided by the total of the defaults instead of their own.
renormalize_by_default_total(w) ==
    LET total == SeqSum(DictValues(default_weights))
    IN  [i \in DOMAIN w |-> Item(w[i].k, RDiv(w[i].v, total))]

\* 168-174: the user's overrides, then Env_Conditions forced to env_overall_weight
overridden_weights(uw, eow) ==
    DictSet(DictUpdate(default_weights, uw), Env_Conditions, eow)

\* 177-179: each weight divided by the total (total # 0)
renormalize(w) ==
    LET total == SeqSum(DictValues(w))
    IN  [i \in DOMAIN w |-> Item(w[i].k, RDiv(w[i].v, total))]

\* 189-198: col_map, key -> higher_is_better (the column carries the key's name)
col_map ==
    <<Item(Times_Hosted, TRUE), Item(Last_Hosted_Year, TRUE),
      Item(Avg_Feb_Temp_F, FALSE), Item(Alltransit_Score, TRUE),
      Item(Renewable_Energy_Pct, TRUE), Item(Waste_Diversion_Pct, TRUE),
      Item(Green_Legacy_Projects, TRUE), Item(Carbon_Offset_Programs, TRUE)>>

\* A slip: a missing numeric column contributes nothing instead of the neutral 50.
norm_col_zero_when_missing(frame, key) ==
    IF HasColumn(frame, key)
    THEN _minmax_normalize(Column(frame, key), Get(col_map, key))
    ELSE [i \in Rows(frame) |-> I(0)]

\* 200-205: the normalized column of a numeric key, neutral 50 when it is missing
norm_col(frame, key) ==
    IF HasColumn(frame, key)
    THEN _minmax_normalize(Column(frame, key), Get(col_map, key))
    ELSE [i \in Rows(frame) |-> I(50)]

\* {k.lower(): v for k, v in entry.items()}
RECURSIVE LowerKeys(_)
LowerKeys(items) ==
    IF items = <<>> THEN <<>>
    ELSE LET rest == LowerKeys(SubSeq(items, 1, Len(items) - 1))
             last == items[Len(items)]
         IN  DictSet(rest, Lower(last.k), last.v)

\* {...} of rubric.get(attr, {}).items() if rubric else {}: AttributeError when
\* the entry has no .items()
attr_rubric(rubric, attr) ==
    IF rubric = <<>> THEN Ok(<<>>)
    ELSE LET entry == IF HasKey(rubric, attr) THEN Get(rubric, attr) ELSE JObj(<<>>)
         IN  IF entry.t = "obj" THEN Ok(LowerKeys(entry.items)) ELSE Raised

\* str(v).lower() of a cell
StrLower(v) == IF v.null THEN S_none ELSE Lower(v.s)

\* 210-215
_stad_map(v, rub) ==
    LET m == _map_with_rubric(v, rub)
    IN  IF m # None THEN m
        ELSE IF StrLower(v) \in {S_dome, S_retractable_roof, S_retractable}
             THEN JNum(I(100)) ELSE JNum(I(50))

\* 223-238
_map_leed(x, rub) ==
    LET m == _map_with_rubric(x, rub)
        s == StrLower(x)
    IN  IF m # None THEN m
        ELSE IF x.null THEN JNum(I(0))
        ELSE IF IsSubstring(S_platinum, s) THEN JNum(I(100))
        ELSE IF IsSubstring(S_gold, s) THEN JNum(I(80))
        ELSE IF IsSubstring(S_silver, s) THEN JNum(I(60))
        ELSE IF IsSubstring(S_certified, s) THEN JNum(I(50))
        ELSE JNum(I(30))

\* 246-250 and 258-262
_map_waste(x, rub) ==
    LET m == _map_with_rubric(x, rub)
    IN  IF m # None THEN m ELSE JNum(I(50))

\* 207-265: the scores of one categorical attribute, row by row
CatMap(attr, x, rub) ==
    IF attr = Stadium_Type THEN _stad_map(x, rub)
    ELSE IF attr = Stadium_leed_cert THEN _map_leed(x, rub)
    ELSE _map_waste(x, rub)

cat_scores(frame, rubric, attr) ==
    IF ~HasColumn(frame, attr) THEN Ok([i \in Rows(frame) |-> JNum(I(50))])
    ELSE LET rub == attr_rubric(rubric, attr)
         IN  IF rub.raised THEN Raised
             ELSE Ok([i \in Rows(frame) |-> CatMap(attr, Column(frame, attr)[i], rub.v)])

CatKeys == <<Stadium_Type, Stadium_leed_cert, Waste_Management, Future_Developments>>
NumKeys == <<Times_Hosted, Last_Hosted_Year, Avg_Feb_Temp_F, Alltransit_Score,
             Renewable_Energy_Pct, Waste_Diversion_Pct, Green_Legacy_Projects,
             Carbon_Offset_Programs>>

\* 269-288: the keys of the weighted sum, in the order it adds them
ScoredKeys == CatKeys \o NumKeys \o <<Env_Conditions>>

\* 270-286: s += default_weights.get(key, 0) * component, over the scored keys
raw_sum(weights, comps) ==
    SeqSum([j \in DOMAIN ScoredKeys |-> RMul(GetOr0(weights, ScoredKeys[j]), comps[j])])

(***************************************************************************)
(* 292-301.  The standard deviation is a square root; a standardized value *)
(* is kept exactly as the pair [c, k] that stands for c + k / std, where   *)
(* std > 0 is the sample standard deviation of Raw_Score.                  *)
(***************************************************************************)
ZNaN    == [nan |-> TRUE,  c |-> I(0), k |-> I(0)]
Z(c, k) == [nan |-> FALSE, c |-> c,    k |-> k]

Valid(raw) == SelectSeq(raw, LAMBDA x : ~x.nan)

\* Series.mean(): over the non-missing values
Mean(raw) ==
    IF Valid(raw) = <<>> THEN NaN
    ELSE RDiv(SeqSum(Valid(raw)), I(Len(Valid(raw))))

\* Series.std() is NaN with fewer than two values, and 0 when all are equal
StdIsNaN(raw)  == Len(Valid(raw)) < 2
StdIsZero(raw) == ~StdIsNaN(raw) /\ \A i \in DOMAIN Valid(raw) : Valid(raw)[i] = Valid(raw)[1]

\* The division carried out without the guard on std: 0/0 or x/NaN in every row.
standardize_unguarded(raw) ==
    IF StdIsZero(raw) \/ StdIsNaN(raw) THEN [i \in DOMAIN raw |-> ZNaN]
    ELSE [i \in DOMAIN raw |->
            IF raw[i].nan THEN ZNaN ELSE Z(I(0), RSub(raw[i], Mean(raw)))]

\* 292-297: z = 0 for every row when std is 0 or NaN, else (raw - mean) / std
standardize(raw) ==
    IF StdIsZero(raw) \/ StdIsNaN(raw) THEN [i \in DOMAIN raw |-> Z(I(0), I(0))]
    ELSE [i \in DOMAIN raw |->
            IF raw[i].nan THEN ZNaN ELSE Z(I(0), RSub(raw[i], Mean(raw)))]

\* z * 10 + 50
scale(z) ==
    IF z.nan THEN ZNaN ELSE Z(RAdd(RMul(z.c, I(10)), I(50)), RMul(z.k, I(10)))

Output(w, env, raw, z) ==
    [raised |-> FALSE, weights |-> w, Env_Conditions |-> env, Raw_Score |-> raw,
     Sustainability_Z |-> z, Sustainability_Z_Scaled |-> [i \in DOMAIN z |-> scale(z[i])]]

Exception ==
    [raised |-> TRUE, weights |-> <<>>, Env_Conditions |-> <<>>, Raw_Score |-> <<>>,
     Sustainability_Z |-> <<>>, Sustainability_Z_Scaled |-> <<>>]

calculate_sustainability_scores(frame, uw, ecw, eow, file) ==
    LET w0     == overridden_weights(uw, eow)
        w      == renormalize(w0)
        envs   == [i \in Rows(frame) |-> compute_env_condition_metric(frame, i, ecw)]
        env    == [i \in Rows(frame) |-> envs[i].v]
        rubric == _load_rubric(file)
        cats   == [j \in DOMAIN CatKeys |-> cat_scores(frame, rubric, CatKeys[j])]
        nums   == [j \in DOMAIN NumKeys |-> norm_col(frame, NumKeys[j])]
        comps(i) == [j \in DOMAIN CatKeys |-> cats[j].v[i].num]
                    \o [j \in DOMAIN NumKeys |-> nums[j][i]]
                    \o <<env[i]>>
        raw    == [i \in Rows(frame) |-> Round(raw_sum(w, comps(i)), 3)]
    IN  IF REq(SeqSum(DictValues(w0)), I(0)) THEN Exception           \* ZeroDivisionError, 179
        ELSE IF \E i \in Rows(frame) : envs[i].raised THEN Exception     \* ZeroDivisionError, 78
        ELSE IF \E j \in DOMAIN CatKeys : cats[j].raised THEN Exception   \* AttributeError
        ELSE IF \E j \in DOMAIN CatKeys : \E i \in Rows(frame) : cats[j].v[i].t # "num"
             THEN Exception                                            \* TypeError, 272-278
        ELSE Output(w, env, raw, standardize(raw))

(***************************************************************************)
(* Inputs.                                                                 *)
(***************************************************************************)
Cells == {NaN} \cup {I(v) : v \in 0..MaxVal}

SeqsUpTo(S, k) == UNION {[1..m -> S] : m \in 0..k}

\* A dict: its keys are distinct.
Dicts(K, V, k) ==
    {m \in SeqsUpTo([k : K, v : V], k) :
        \A i, j \in DOMAIN m : i # j => m[i].k # m[j].k}

NoneWeights == [none |-> TRUE, items |-> <<>>]
Weights(items) == [none |-> FALSE, items |-> items]

NoFile == [exists |-> FALSE, readable |-> FALSE, valid |-> FALSE, data |-> None]
File(readable, valid, data) ==
    [exists |-> TRUE, readable |-> readable, valid |-> valid, data |-> data]

NoFrame == [n |-> 0, cols |-> <<>>]
NoOutput ==
    [raised |-> FALSE, weights |-> <<>>, Env_Conditions |-> <<>>, Raw_Score |-> <<>>,
     Sustainability_Z |-> <<>>, Sustainability_Z_Scaled |-> <<>>]

\* The variables of the entry points a behaviour does not exercise.
IdleNorm == series = <<>> /\ higher_is_better = TRUE /\ norm = <<>>
IdleRubric == value = Missing /\ rubric_map = <<>> /\ mapped = None
IdleEnv == row = 0 /\ env_value = Ok(NaN)
IdleScores ==
    /\ user_weights = <<>> /\ env_overall_weight = R(4, 10)
    /\ rubric_file = NoFile /\ extra_weights = <<>> /\ out = NoOutput
IdleFrame == df = NoFrame /\ env_component_weights = NoneWeights

(***************************************************************************)
(* The normalizer called on its own.                                       *)
(***************************************************************************)
InitNorm ==
    /\ pc = "ready" /\ call = "_minmax_normalize"
    /\ series \in SeqsUpTo(Cells, MaxLen)
    /\ higher_is_better \in BOOLEAN
    /\ norm = <<>>
    /\ IdleRubric /\ IdleEnv /\ IdleScores /\ IdleFrame

CallMinmaxNormalize ==
    /\ pc = "ready" /\ call = "_minmax_normalize"
    /\ norm' = _minmax_normalize(series, higher_is_better)
    /\ pc' = "done"
    /\ UNCHANGED <<call, series, higher_is_better, value, rubric_map, mapped, df, row,
                   env_component_weights, env_value, user_weights, env_overall_weight,
                   rubric_file, extra_weights, out>>

NextNorm == CallMinmaxNormalize

SpecNorm == InitNorm /\ [][NextNorm]_vars

(***************************************************************************)
(* The rubric mapper called on its own.                                    *)
(***************************************************************************)
V_GoldCertified == <<"G", "o", "l", "d", " ", "C", "e", "r", "t", "i", "f", "i", "e", "d">>
V_UnknownTier == <<"U", "n", "k", "n", "o", "w", "n", " ", "T", "i", "e", "r">>
V_Default == <<"D", "e", "f", "a", "u", "l", "t">>
V_Gold == <<"G", "o", "l", "d">>
K_old == <<"o", "l", "d">>
K_def == <<"d", "e", "f">>

\* Rubric keys and scores, and the values looked up in them.
RubricKeys   == {S_gold, K_old, K_def, K_default, Lower(V_GoldCertified)}
RubricScores == {JNum(I(10)), JNum(I(80))}
Values       == {Missing, Label(V_Gold), Label(V_GoldCertified), Label(V_UnknownTier),
                 Label(V_Default), Label(K_old)}

InitRubric ==
    /\ pc = "ready" /\ call = "_map_with_rubric"
    /\ value \in Values
    /\ rubric_map \in Dicts(RubricKeys, RubricScores, MaxRubric)
    /\ mapped = None
    /\ IdleNorm /\ IdleEnv /\ IdleScores /\ IdleFrame

CallMapWithRubric ==
    /\ pc = "ready" /\ call = "_map_with_rubric"
    /\ mapped' = _map_with_rubric(value, rubric_map)
    /\ pc' = "done"
    /\ UNCHANGED <<call, series, higher_is_better, norm, value, rubric_map, df, row,
                   env_component_weights, env_value, user_weights, env_overall_weight,
                   rubric_file, extra_weights, out>>

NextRubric == CallMapWithRubric

SpecRubric == InitRubric /\ [][NextRubric]_vars

(***************************************************************************)
(* The environmental composite called on its own, on one row of a frame.   *)
(***************************************************************************)
Ramp(n)   == [i \in 1..n |-> I(i - 1)]
Labels(n) == [i \in 1..n |-> Label(<<"c", LowerCase[i]>>)]
Col(name, cells) == [name |-> name, cells |-> cells]

\* None or one column of the given name, its cells drawn from S.
Optional(name, S) == {<<>>} \cup {<<Col(name, cells)>> : cells \in S}

\* Frames of n rows: an identifier, and any subset of the component columns;
\* the renewable column holds any cells, the others a ramp; the carbon-offset
\* count, when present, stands before the emissions column as in the tests.
EnvFrames(n) ==
    {[n |-> n, cols |-> <<Col(City, Labels(n))>> \o e \o w \o a \o o \o c] :
        e \in Optional(Renewable_Energy_Pct, [1..n -> Cells]),
        w \in Optional(Water_Score, {Ramp(n)}),
        a \in Optional(Air_ug_m3, {Ramp(n)}),
        o \in Optional(Carbon_Offset_Programs, {Ramp(n)}),
        c \in Optional(Carbon_Emissions, {Ramp(n)})}

EnvWeightMaps ==
    {NoneWeights,
     Weights(<<>>),
     Weights(<<Item("energy", R(1, 2)), Item("water", R(1, 5)),
               Item("air", R(1, 5)), Item("carbon", R(1, 10))>>),
     Weights(<<Item("water", I(1)), Item("energy", I(2))>>),
     Weights(<<Item("energy", I(0)), Item("water", I(0)),
               Item("air", I(1)), Item("carbon", I(0))>>),
     Weights(<<Item("energy", I(0)), Item("water", I(0))>>)}

InitEnv ==
    /\ pc = "ready" /\ call = "compute_env_condition_metric"
    /\ df \in UNION {EnvFrames(n) : n \in 1..MaxRows}
    /\ env_component_weights \in EnvWeightMaps
    /\ row = 0 /\ env_value = Ok(NaN)
    /\ IdleNorm /\ IdleRubric /\ IdleScores

CallComputeEnvConditionMetric ==
    /\ pc = "ready" /\ call = "compute_env_condition_metric"
    /\ \E r \in Rows(df) :
          /\ row' = r
          /\ env_value' = compute_env_condition_metric(df, r, env_component_weights)
          /\ pc' = IF env_value'.raised THEN "raised" ELSE "done"
    /\ UNCHANGED <<call, series, higher_is_better, norm, value, rubric_map, mapped, df,
                   env_component_weights, user_weights, env_overall_weight,
                   rubric_file, extra_weights, out>>

NextEnv == CallComputeEnvConditionMetric

SpecEnv == InitEnv /\ [][NextEnv]_vars

(***************************************************************************)
(* expand_model_for_multisport (core.py 413-438): the scoring call it      *)
(* makes; base_override is 419-424.                                        *)
(***************************************************************************)
base_override ==
    <<Item(Green_Legacy_Projects, R(20, 100)), Item(Alltransit_Score, R(25, 100)),
      Item(Renewable_Energy_Pct, R(25, 100)), Item(Env_Conditions, R(20, 100))>>

\* 425-428: the user_weights and env_overall_weight of the scoring call
multisport_weights(extra) == DictUpdate(base_override, extra)
multisport_env_weight == R(25, 100)

(***************************************************************************)
(* The scoring pipeline.                                                   *)
(***************************************************************************)
L_Dome == <<"D", "o", "m", "e">>
L_Open == <<"O", "p", "e", "n">>
L_Retractable == <<"R", "e", "t", "r", "a", "c", "t", "a", "b", "l", "e">>
L_Gold == <<"G", "o", "l", "d">>
L_Certified == <<"C", "e", "r", "t", "i", "f", "i", "e", "d">>
L_Platinum == <<"P", "l", "a", "t", "i", "n", "u", "m">>
Stadium_Name == <<"S", "t", "a", "d", "i", "u", "m", "_", "N", "a", "m", "e">>
Foo == <<"F", "o", "o">>

Ids(n) == <<Col(City, Labels(n)), Col(State, Labels(n))>>

\* Frames of n rows: the identifiers, and optionally a transit column of any
\* cells and a stadium-type column of any of two labels.
Frames(n) ==
    {[n |-> n, cols |-> Ids(n) \o t \o s] :
        t \in Optional(Alltransit_Score, [1..n -> Cells]),
        s \in Optional(Stadium_Type, [1..n -> {Label(L_Dome), Label(L_Open)}])}

\* Three frames scored under every argument: identifiers only; a transit
\* column with a missing cell beside categorical and component columns; and
\* two rows that differ in transit and renewable share.
SampleFrames ==
    {[n |-> 1, cols |-> Ids(1)],
     [n |-> 3, cols |-> Ids(3) \o
        <<Col(Stadium_Type, <<Label(L_Dome), Label(L_Open), Missing>>),
          Col(Alltransit_Score, <<I(0), NaN, I(MaxVal)>>),
          Col(Renewable_Energy_Pct, <<I(1), I(0), I(MaxVal)>>),
          Col(Stadium_leed_cert, <<Label(L_Gold), Missing, Label(L_Platinum)>>)>>],
     [n |-> 2, cols |-> Ids(2) \o
        <<Col(Stadium_Type, <<Label(L_Open), Label(L_Dome)>>),
          Col(Alltransit_Score, <<I(0), I(1)>>),
          Col(Renewable_Energy_Pct, <<I(1), I(0)>>)>>]}

WeightVals == {I(0), R(1, 5)}
OptItem(k, V) == {<<>>} \cup {<<Item(k, v)>> : v \in V}

\* Partial overrides of the environment weight, of a scored key and of a key
\* the pipeline does not score; and the override that zeroes every weight.
UserWeights ==
    {e \o t \o f : e \in OptItem(Env_Conditions, WeightVals),
                   t \in OptItem(Alltransit_Score, WeightVals),
                   f \in OptItem(Foo, WeightVals)}
    \cup {[i \in DOMAIN default_weights |-> Item(default_weights[i].k, I(0))]}

EnvOverallWeights == {I(0), R(25, 100), R(4, 10)}

ScoreWeightMaps ==
    {NoneWeights,
     Weights(<<Item("energy", R(1, 2)), Item("water", R(1, 5)),
               Item("air", R(1, 5)), Item("carbon", R(1, 10))>>),
     Weights(<<Item("energy", I(0))>>)}

\* The entry of an attribute in a rubric file, well-formed or not.
RubricEntries ==
    {JList, JNum(I(1)), JStr, None,
     JObj(<<>>),
     JObj(<<Item(L_Dome, JNum(I(90))), Item(K_default, JNum(I(10)))>>),
     JObj(<<Item(L_Open, JStr)>>),
     JObj(<<Item(L_Open, None), Item(S_dome, JNum(I(70)))>>)}

RubricFiles ==
    {NoFile, File(FALSE, TRUE, JObj(<<>>)), File(TRUE, FALSE, None),
     File(TRUE, TRUE, JList), File(TRUE, TRUE, JObj(<<>>)),
     File(TRUE, TRUE, JObj(<<Item(Waste_Management, JList)>>))}
    \cup {File(TRUE, TRUE, JObj(<<Item(Stadium_Type, e)>>)) : e \in RubricEntries}

ExtraWeights ==
    {<<>>, <<Item(Env_Conditions, R(1, 2))>>, <<Item(Stadium_Type, R(1, 5))>>,
     <<Item(Foo, R(1, 5)), Item(Alltransit_Score, I(0))>>}

\* Every frame under the default arguments and no rubric file.
InitData ==
    /\ call = "calculate_sustainability_scores"
    /\ df \in UNION {Frames(n) : n \in 1..MaxRows}
    /\ user_weights = <<>> /\ env_overall_weight = R(4, 10)
    /\ env_component_weights = NoneWeights /\ rubric_file = NoFile
    /\ extra_weights = <<>>

\* The sample frames under every combination of arguments, no rubric file.
InitArgs ==
    /\ call = "calculate_sustainability_scores"
    /\ df \in SampleFrames
    /\ user_weights \in UserWeights
    /\ env_overall_weight \in EnvOverallWeights
    /\ env_component_weights \in ScoreWeightMaps
    /\ rubric_file = NoFile
    /\ extra_weights = <<>>

\* The sample frames under the default arguments and every rubric file.
InitFile ==
    /\ call = "calculate_sustainability_scores"
    /\ df \in SampleFrames
    /\ user_weights = <<>> /\ env_overall_weight = R(4, 10)
    /\ env_component_weights = NoneWeights
    /\ rubric_file \in RubricFiles
    /\ extra_weights = <<>>

\* The multi-sport scenario: a frame, the caller's extra weights, a rubric file.
InitMultisport ==
    /\ call = "expand_model_for_multisport"
    /\ df \in SampleFrames
    /\ extra_weights \in ExtraWeights
    /\ rubric_file \in RubricFiles
    /\ user_weights = <<>> /\ env_overall_weight = R(4, 10)
    /\ env_component_weights = NoneWeights

Init ==
    /\ pc = "ready" /\ out = NoOutput
    /\ InitData \/ InitArgs \/ InitFile \/ InitMultisport
    /\ IdleNorm /\ IdleRubric /\ IdleEnv

CallCalculateSustainabilityScores ==
    /\ pc = "ready" /\ call = "calculate_sustainability_scores"
    /\ out' = calculate_sustainability_scores(df, user_weights, env_component_weights,
                                              env_overall_weight, rubric_file)
    /\ pc' = IF out'.raised THEN "raised" ELSE "done"
    /\ UNCHANGED <<call, series, higher_is_better, norm, value, rubric_map, mapped, df, row,
                   env_component_weights, env_value, user_weights, env_overall_weight,
                   rubric_file, extra_weights>>

\* The arguments of the scoring call are recorded as the call's own.
CallExpandModelForMultisport ==
    /\ pc = "ready" /\ call = "expand_model_for_multisport"
    /\ user_weights' = multisport_weights(extra_weights)
    /\ env_overall_weight' = multisport_env_weight
    /\ out' = calculate_sustainability_scores(df, user_weights', NoneWeights,
                                              env_overall_weight', rubric_file)
    /\ pc' = IF out'.raised THEN "raised" ELSE "done"
    /\ UNCHANGED <<call, series, higher_is_better, norm, value, rubric_map, mapped, df, row,
                   env_component_weights, env_value, rubric_file, extra_weights>>

Next == CallCalculateSustainabilityScores \/ CallExpandModelForMultisport

Spec == Init /\ [][Next]_vars

(***************************************************************************)
(* The scoring pipeline on frames shaped like the three-city validation    *)
(* fixture (tests/synthetic_validation.py 16-38): row 1 is in between,     *)
(* row 2 is lowest and row 3 highest on every higher-is-better column, and *)
(* the other way round on the lower-is-better ones.                        *)
(***************************************************************************)
MidVals == {1, Top - 1}

HigherCol(name, m) == Col(name, <<I(m), I(0), I(Top)>>)
LowerCol(name, m)  == Col(name, <<I(m), I(Top), I(0)>>)

\* The columns in the fixture's order, or with the emissions column moved in
\* front of the carbon-offset count.
RankFrames ==
    {[n |-> 3, cols |->
        Ids(3) \o
        <<HigherCol(Times_Hosted, m), HigherCol(Last_Hosted_Year, m),
          Col(Stadium_Name, Labels(3)),
          Col(Stadium_Type, <<Label(st), Label(L_Open), Label(L_Retractable)>>),
          LowerCol(Avg_Feb_Temp_F, Top - m), HigherCol(Alltransit_Score, t),
          HigherCol(Renewable_Energy_Pct, e), HigherCol(Waste_Diversion_Pct, m),
          HigherCol(Green_Legacy_Projects, m)>> \o
        (IF first THEN <<LowerCol(Carbon_Emissions, Top - c)>> ELSE <<>>) \o
        <<HigherCol(Carbon_Offset_Programs, o),
          Col(Stadium_leed_cert, <<Label(L_Gold), Label(L_Certified), Label(L_Platinum)>>),
          HigherCol(Water_Score, w), LowerCol(Air_ug_m3, Top - a)>> \o
        (IF first THEN <<>> ELSE <<LowerCol(Carbon_Emissions, Top - c)>>)] :
        m \in MidVals, t \in MidVals, e \in MidVals, o \in MidVals,
        w \in MidVals, a \in MidVals, c \in MidVals,
        st \in {L_Dome, L_Open}, first \in BOOLEAN}

InitRank ==
    /\ pc = "ready" /\ out = NoOutput
    /\ call = "calculate_sustainability_scores"
    /\ df \in RankFrames
    /\ user_weights = <<>> /\ env_overall_weight = R(4, 10)
    /\ env_component_weights = NoneWeights /\ rubric_file = NoFile
    /\ extra_weights = <<>>
    /\ IdleNorm /\ IdleRubric /\ IdleEnv

NextRank == CallCalculateSustainabilityScores

SpecRank == InitRank /\ [][NextRank]_vars

(***************************************************************************)
(* Claims.                                                                 *)
(***************************************************************************)
NonMissing(s) == {i \in DOMAIN s : ~s[i].nan}
TwoDistinct(s) == \E i, j \in NonMissing(s) : s[i] # s[j]

Scoring == call \in {"calculate_sustainability_scores", "expand_model_for_multisport"}
Returned == Scoring /\ pc = "done"

\* The sum of the renormalized weight vector, and of the weights the weighted
\* sum of Raw_Score applies (one per scored key).
VectorSum == SeqSum(DictValues(out.weights))
AppliedSum == SeqSum([j \in DOMAIN ScoredKeys |-> GetOr0(out.weights, ScoredKeys[j])])
IsScored(k) == \E j \in DOMAIN ScoredKeys : ScoredKeys[j] = k
UnscoredSum == SeqSum(DictValues(SelectSeq(out.weights, LAMBDA it : ~IsScored(it.k))))

\* C1 as stated: for every valid weight configuration the renormalized weight
\* vector sums to exactly 1, and so do the weights applied to the component
\* scores when Raw_Score is assembled.
C1_AsStated ==
    Returned => VectorSum = I(1) /\ AppliedSum = I(1)

\* C1 amended: the renormalized weight vector sums to exactly 1; the weights
\* applied to the component scores sum to 1 minus the renormalized weight of
\* the user_weights keys that are not scored attributes, so to exactly 1 when
\* user_weights names only scored attributes.
C1_Amended ==
    Returned =>
        /\ VectorSum = I(1)
        /\ AppliedSum = RSub(I(1), UnscoredSum)
        /\ (\A i \in DOMAIN user_weights : IsScored(user_weights[i].k)) => AppliedSum = I(1)

\* C1 witness: a call that overrides a scored key and the environment weight
\* has returned, and the vector's total before renormalization was not 1.
C1_Witness ==
    /\ Returned
    /\ HasKey(user_weights, Alltransit_Score) /\ HasKey(user_weights, Env_Conditions)
    /\ ~HasKey(user_weights, Foo)
    /\ SeqSum(DictValues(overridden_weights(user_weights, env_overall_weight))) # I(1)
    /\ AppliedSum = I(1)

\* C2: a missing value never poisons the score: Raw_Score, Sustainability_Z
\* and Sustainability_Z_Scaled are non-null numbers for every row of every
\* dataset, also when a numeric column has missing cells beside two distinct values.
C2_AsStated ==
    Returned =>
        \A i \in Rows(df) :
            /\ ~out.Raw_Score[i].nan
            /\ ~out.Sustainability_Z[i].nan
            /\ ~out.Sustainability_Z_Scaled[i].nan

\* A rubric source that is missing, unreadable, not JSON, not an object, or
\* whose entry for an attribute is not a label-to-number map.
IsLabelMap(e) == e.t = "obj" /\ \A i \in DOMAIN e.items : e.items[i].v.t = "num"
Malformed(file) ==
    \/ ~file.exists \/ ~file.readable \/ ~file.valid
    \/ file.data.t # "obj"
    \/ \E i \in DOMAIN file.data.items : ~IsLabelMap(file.data.items[i].v)

WithoutRubric ==
    calculate_sustainability_scores(df, user_weights, env_component_weights,
                                    env_overall_weight, NoFile)

\* The sources _load_rubric turns into an empty rubric.
NotAnObject(file) ==
    ~file.exists \/ ~file.readable \/ ~file.valid \/ file.data.t # "obj"

\* C3: a malformed rubric is never raised to the caller: whatever the rubric
\* source (missing, unreadable, not JSON, not an object, or an object whose
\* entry for an attribute is not a label-to-number map), a call that returns
\* without a rubric returns with it, and a source that is not an object is
\* scored as if no rubric had been supplied.
C3_AsStated ==
    (Scoring /\ pc # "ready" /\ Malformed(rubric_file) /\ ~WithoutRubric.raised) =>
        /\ pc = "done"
        /\ NotAnObject(rubric_file) => out = WithoutRubric

\* The user's weights with the entry of key k dropped.
Without(d, k) == SelectSeq(d, LAMBDA it : it.k # k)
OtherWeights ==
    SeqSum(DictValues(Without(DictUpdate(default_weights, user_weights), Env_Conditions)))

HigherCols == <<Times_Hosted, Last_Hosted_Year, Alltransit_Score, Renewable_Energy_Pct,
                Waste_Diversion_Pct, Green_Legacy_Projects, Carbon_Offset_Programs,
                Water_Score>>
LowerCols == <<Avg_Feb_Temp_F, Air_ug_m3, Carbon_Emissions>>
CertScore(i) == _map_leed(Column(df, Stadium_leed_cert)[i], <<>>).num
TypeScore(i) == _stad_map(Column(df, Stadium_Type)[i], <<>>).num

IsBest(b) ==
    /\ \A c \in DOMAIN HigherCols : \A i \in Rows(df) \ {b} :
          RLt(Column(df, HigherCols[c])[i], Column(df, HigherCols[c])[b])
    /\ \A c \in DOMAIN LowerCols : \A i \in Rows(df) \ {b} :
          RLt(Column(df, LowerCols[c])[b], Column(df, LowerCols[c])[i])
    /\ \A i \in Rows(df) \ {b} : RLt(CertScore(i), CertScore(b)) /\ RLe(TypeScore(i), TypeScore(b))

IsWorst(w) ==
    /\ \A c \in DOMAIN HigherCols : \A i \in Rows(df) \ {w} :
          RLt(Column(df, HigherCols[c])[w], Column(df, HigherCols[c])[i])
    /\ \A c \in DOMAIN LowerCols : \A i \in Rows(df) \ {w} :
          RLt(Column(df, LowerCols[c])[i], Column(df, LowerCols[c])[w])
    /\ \A i \in Rows(df) \ {w} : RLt(CertScore(w), CertScore(i)) /\ RLe(TypeScore(w), TypeScore(i))

\* x < y for two standardized values of one frame (std > 0)
ZLt(x, y) == ~x.nan /\ ~y.nan /\ x.c = y.c /\ RLt(x.k, y.k)

\* C5: with default weights and no rubric, in a dataset without missing values
\* where one city is best on every scored column and another worst on every
\* scored column, the best city has the strictly highest
\* Sustainability_Z_Scaled and the worst the strictly lowest.
C5_AsStated ==
    Returned =>
        \A b, w \in Rows(df) :
            (IsBest(b) /\ IsWorst(w)) =>
                \A i \in Rows(df) :
                    /\ i # b => ZLt(out.Sustainability_Z_Scaled[i], out.Sustainability_Z_Scaled[b])
                    /\ i # w => ZLt(out.Sustainability_Z_Scaled[w], out.Sustainability_Z_Scaled[i])

InRange(x) == RLe(I(0), x) /\ RLe(x, I(100))

\* C6: compute_env_condition_metric returns a value in [0,100] for every row
\* of every dataset, whichever component columns are present, also with
\* missing cells, and for every subweight map with non-negative entries.
C6_AsStated ==
    (call = "compute_env_condition_metric" /\ pc # "ready") =>
        ~env_value.raised /\ InRange(env_value.v)

AllRawEqual == \A i, j \in Rows(df) : REq(out.Raw_Score[i], out.Raw_Score[j])

RECURSIVE ZSum(_)
ZSum(zs) ==
    IF zs = <<>> THEN Z(I(0), I(0))
    ELSE LET rest == ZSum(Tail(zs))
         IN  IF Head(zs).nan \/ rest.nan THEN ZNaN
             ELSE Z(RAdd(Head(zs).c, rest.c), RAdd(Head(zs).k, rest.k))

ZMean(zs) ==
    LET t == ZSum(zs)
    IN  IF t.nan THEN ZNaN ELSE Z(RDiv(t.c, I(Len(zs))), RDiv(t.k, I(Len(zs))))

\* C8: for every dataset of at least two rows whose Raw_Score are not all
\* equal, the mean of Sustainability_Z_Scaled over all rows is 50, the
\* Sustainability_Z sum to 0, and Sustainability_Z_Scaled = Z * 10 + 50 in every row.
C8_AsStated ==
    (Returned /\ df.n >= 2 /\ ~AllRawEqual) =>
        /\ ZMean(out.Sustainability_Z_Scaled) = Z(I(50), I(0))
        /\ ZSum(out.Sustainability_Z) = Z(I(0), I(0))
        /\ \A i \in Rows(df) :
              out.Sustainability_Z_Scaled[i] = scale(out.Sustainability_Z[i])

SetMin(S) == CHOOSE x \in S : \A y \in S : x <= y

\* Positions of the rubric map whose key is not the reserved 'default'.
Candidates == {i \in DOMAIN rubric_map : rubric_map[i].k # K_default}
ExactKeys == {i \in Candidates : rubric_map[i].k = Lower(value.s)}
SubstringKeys == {i \in Candidates : IsSubstring(rubric_map[i].k, Lower(value.s))}

\* C9: _map_with_rubric resolves a value in a fixed order: an empty rubric or a
\* null value gives no match; else a key equal to the lowercased value wins,
\* even over an earlier substring key; else the first key in iteration order
\* (other than 'default') that is a substring of the lowercased value; else the
\* 'default' entry; else no match.  'default' is never matched as a key.
\* {"gold": 80, "default": 10} maps "Gold Certified" to 80, "Unknown Tier" to 10.
C9_MatchingOrder ==
    (call = "_map_with_rubric" /\ pc = "done") =>
        /\ IF rubric_map = <<>> \/ value.null THEN mapped = None
           ELSE IF ExactKeys # {} THEN \A i \in ExactKeys : mapped = rubric_map[i].v
           ELSE IF SubstringKeys # {} THEN mapped = rubric_map[SetMin(SubstringKeys)].v
           ELSE IF HasKey(rubric_map, K_default) THEN mapped = Get(rubric_map, K_default)
           ELSE mapped = None
        /\ rubric_map = <<[k |-> S_gold, v |-> JNum(I(80))], [k |-> K_default, v |-> JNum(I(10))]>> =>
              /\ value = Label(V_GoldCertified) => mapped = JNum(I(80))
              /\ value = Label(V_UnknownTier) => mapped = JNum(I(10))

\* C9 witness: an exact key sits after a substring key that holds another score,
\* and the exact key's score was returned.
C9_Witness ==
    /\ call = "_map_with_rubric" /\ pc = "done" /\ ~value.null
    /\ \E i \in ExactKeys : \E j \in SubstringKeys :
          j < i /\ rubric_map[j].v # rubric_map[i].v /\ mapped = rubric_map[i].v

\* What C10 says of the non-missing cells: each lands in [0,100], the column
\* minimum on 0 and the maximum on 100 (on 100 and 0 when lower is better).
C10_Extremes ==
    \A i \in NonMissing(series) :
        /\ InRange(norm[i])
        /\ series[i] = SeriesMin(series) =>
              norm[i] = (IF higher_is_better THEN I(0) ELSE I(100))
        /\ series[i] = SeriesMax(series) =>
              norm[i] = (IF higher_is_better THEN I(100) ELSE I(0))

Opposite == _minmax_normalize(series, ~higher_is_better)

C11_FlatColumn ==
    (call = "_minmax_normalize" /\ pc = "done" /\ ~TwoDistinct(series)) =>
        /\ DOMAIN norm = DOMAIN series
        /\ \A i \in DOMAIN series : norm[i] = I(50)
        /\ _minmax_normalize(series, ~higher_is_better) = norm

\* C11 witness: a lower-is-better column with one distinct value in several
\* cells and a missing cell has been normalized.
C11_Witness ==
    /\ call = "_minmax_normalize" /\ pc = "done" /\ ~higher_is_better
    /\ ~TwoDistinct(series)
    /\ Cardinality(NonMissing(series)) >= 2
    /\ NonMissing(series) # DOMAIN series

\* A frame whose only columns are identifiers.
OnlyIdentifiers(frame) ==
    \A c \in DOMAIN frame.cols : frame.cols[c].name \in {City, State}

TotalWeight == SeqSum(DictValues(overridden_weights(user_weights, env_overall_weight)))

\* C12: a dataset with no recognized column beyond an identifier, of any
\* number of rows, is scored without fault (the weights having a total other
\* than 0): the environmental composite is 50 in every row, every field
\* contributes the neutral 50 under its renormalized weight, so Raw_Score is 50
\* times the applied weights (50 when they sum to 1), and Sustainability_Z = 0
\* and Sustainability_Z_Scaled = 50 are numbers in every row, whatever the
\* rubric file.
C12_NoColumns ==
    (Scoring /\ pc # "ready" /\ OnlyIdentifiers(df) /\ TotalWeight # I(0)) =>
        /\ pc = "done"
        /\ \A f \in {"Env_Conditions", "Raw_Score", "Sustainability_Z", "Sustainability_Z_Scaled"} :
              DOMAIN out[f] = Rows(df)
        /\ \A i \in Rows(df) :
              /\ out.Env_Conditions[i] = I(50)
              /\ out.Raw_Score[i] = Round(RMul(I(50), AppliedSum), 3)
              /\ AppliedSum = I(1) => out.Raw_Score[i] = I(50)
              /\ out.Sustainability_Z[i] = Z(I(0), I(0))
              /\ out.Sustainability_Z_Scaled[i] = Z(I(50), I(0))

\* C12 witness: a frame of several rows holding identifiers only has been scored.
C12_Witness ==
    /\ Returned /\ OnlyIdentifiers(df) /\ df.n >= 2
    /\ \A i \in Rows(df) : out.Raw_Score[i] = I(50)

\* The components detected in the frame's columns, with the row's values, and
\* the subweight the call's map gives each (0 for a key the map omits).
EnvDetected == env_components(df, row)
EnvWeight(k) ==
    IF env_component_weights.none THEN Get(default_env_weights, k)
    ELSE GetOr0(env_component_weights.items, k)
EnvTotal == SeqSum([j \in DOMAIN EnvDetected |-> EnvWeight(EnvDetected[j].k)])
EnvApplied == [j \in DOMAIN EnvDetected |-> RDiv(EnvWeight(EnvDetected[j].k), EnvTotal)]

\* C13: if no component is detected in the columns the result is 50;
\* otherwise the call returns the sum of the detected components, and only
\* those, each under its subweight divided by the total of the detected
\* components' subweights, so that the applied subweights sum to 1: for the
\* default subweights and for every caller-supplied map, also one that omits
\* a detected component's key or whose detected entries sum to 0.
C13_AsStated ==
    (call = "compute_env_condition_metric" /\ pc # "ready") =>
        IF EnvDetected = <<>> THEN ~env_value.raised /\ env_value.v = I(50)
        ELSE /\ pc = "done"
             /\ EnvTotal # I(0)
             /\ SeqSum(EnvApplied) = I(1)
             /\ env_value.v = Round(SeqSum([j \in DOMAIN EnvDetected |->
                                   RMul(EnvDetected[j].v, EnvApplied[j])]), 2)

====
